---- MODULE Spec2Model ----
(***************************************************************************)
(* The execution store of gitness (internal/store/database, executions    *)
(* table): Find, Create, Update, UpdateOptLock and Delete, called by       *)
(* concurrent request handlers against one shared table.                   *)
(*                                                                         *)
(* A row of the table and a types.Execution value are the same record;     *)
(* of the columns only those the claims speak about are kept: the          *)
(* surrogate key (execution_id), the identity (execution_pipeline_id,      *)
(* execution_number), one payload column of the UPDATE's SET list          *)
(* (execution_status), execution_updated and execution_version.            *)
(*                                                                         *)
(* The space controller's Move (internal/api/controller/space): the        *)
(* primary path segment and the space row are rewritten inside one         *)
(* transaction. It has its own tables and its own specification, SpecMove. *)
(*                                                                         *)
(* The web client's usePRChecksDecision hook (web/src/hooks): the effect   *)
(* that polls the status checks with timers. Its specification is          *)
(* SpecPoll.                                                               *)
(***************************************************************************)
EXTENDS Integers, FiniteSets, Sequences, TLC

\* ---- bounds -------------------------------------------------------------
NumProcs == 2
MaxRows == 2
MaxVersion == 1
MaxClock == 1
MaxEffects == 3

\* The version a new record starts at.
InitialVersion == 0

Procs == 1..NumProcs
PipelineIDs == {1}
Numbers == {1}
Statuses == {"pending", "running"}

\* What callers put into the version and updated fields of a record they
\* create: the initial version or another one, no time or some time.
NewVersions == {InitialVersion, InitialVersion + 1}
NewUpdateds == {0, 1}

\* ---- errors -------------------------------------------------------------
NoErr == "nil"
ErrVersionConflict == "ErrVersionConflict"
ErrResourceNotFound == "ErrResourceNotFound"
ErrDuplicate == "ErrDuplicate"
ErrSQL == "ErrSQL"
ErrMutate == "ErrMutate"

\* ---- types.Execution ----------------------------------------------------
NilExecution ==
    [ID |-> 0, PipelineID |-> 0, Number |-> 0, Status |-> "", Updated |-> 0, Version |-> 0]

\* The caller-supplied mutation function: sets the status, or fails when the
\* record it is given has the status failOn.
MutateFns == [failOn : Statuses \cup {"never"}, set : {"running"}]

mutateFn(f, x) ==
    IF x.Status = f.failOn
    THEN [rec |-> x, err |-> ErrMutate]
    ELSE [rec |-> [x EXCEPT !.Status = f.set], err |-> NoErr]

VARIABLES
    executions,   \* the executions table: a set of rows
    nextID,       \* the next execution_id the database hands out
    pc,           \* per caller: position in the call in progress
    fn,           \* per caller: mutateFn of the UpdateOptLock in progress
    execution,    \* per caller: UpdateOptLock's current snapshot
    e,            \* per caller: the record Update points at (dup, or the caller's record)
    attempts,     \* per caller: Update calls made by the UpdateOptLock call
    finds,        \* per caller: re-reads made by the UpdateOptLock call
    lastUpdateErr,\* per caller: what the last Update inside the call returned
    mutateErr,    \* per caller: what the last mutateFn inside the call returned
    ret,          \* the return this step made, if it made one
    created,      \* history: execution_id -> version the row was inserted with
    commits,      \* history: execution_id -> number of committed updates
    spaceUID,     \* the spaces table: space_id -> space_uid
    segments,     \* the space path segments table: a set of rows
    txOwner,      \* the caller whose transaction is open, or 0
    txSpaceUID,   \* the spaces table as the open transaction sees it
    txSegments,   \* the segments table as the open transaction sees it
    mpc,          \* per caller: position in the Move in progress
    space,        \* per caller: the types.Space that FindByRef returned
    inUID,        \* per caller: the Move's in.UID
    mret,         \* the return of Move this step made, if it made one
    mounted,      \* whether the component using the hook is mounted
    deps,         \* the effect's dependencies as of the last render
    current,      \* the effect instance of the last render, or 0
    effects       \* every effect instance run so far: a sequence of records

storeVars == <<executions, nextID, pc, fn, execution, e,
               attempts, finds, lastUpdateErr, mutateErr, ret, created, commits>>

moveVars == <<spaceUID, segments, txOwner, txSpaceUID, txSegments, mpc, space,
              inUID, mret>>

pollVars == <<mounted, deps, current, effects>>

vars == <<storeVars, moveVars, pollVars>>

\* What a step of the execution store leaves alone.
notStore == <<moveVars, pollVars>>

\* What a step of Move leaves alone.
notMove == <<storeVars, pollVars>>

\* What a step of the hook leaves alone.
notPoll == <<storeVars, moveVars>>

\* What a step leaves alone of a caller's own variables.
locals == <<pc, fn, execution, e, attempts, finds, lastUpdateErr, mutateErr>>

IDs == 1..MaxRows

\* ---- usePRChecksDecision ------------------------------------------------

\* repoMetadata?.path and pullRequestMetadata?.source_sha: absent or present.
Paths == {"", "repo"}
SHAs == {"", "sha"}

\* The effect's dependency array: [path, source_sha, complete].
Deps == [path : Paths, sha : SHAs, complete : BOOLEAN]

\* useState(true) for complete, before the props are there.
InitialDeps == [path |-> "", sha |-> "", complete |-> TRUE]

\* One run of the effect: the values its closure captured, whether the timer
\* whose id is in interval is pending, whether a refetch the closure started
\* is in flight, and whether the cleanup has run.
Effect(d) == [deps |-> d, timer |-> TRUE, inflight |-> FALSE, cleaned |-> FALSE]

\* return () => window.clearTimeout(interval): the timer in interval is
\* cleared if it is pending; one that has fired is not there to clear.
Cleanup(fx) == [fx EXCEPT !.timer = FALSE, !.cleaned = TRUE]

\* The condition of pollingFn, on the values the closure captured.
Polls(fx) == fx.deps.path # "" /\ fx.deps.sha # "" /\ ~fx.deps.complete

\* ---- spaces ------------------------------------------------------------
SpaceIDs == {1, 2}
UIDs == {1, 2, 3}

\* in.UID == nil
NilUID == 0

NilSpace == [ID |-> 0, UID |-> NilUID]

\* A types.SpacePathSegment: moveInner writes primary segments only.
PrimarySegment(spaceID, uid) == [SpaceID |-> spaceID, UID |-> uid, IsPrimary |-> TRUE]

ErrStore == "ErrStore"
ErrNotAuthorized == "ErrNotAuthorized"
ErrSanitize == "ErrSanitize"

\* What Move hands back: the space and the error, and how many statements of
\* its transaction had run when it returned.
MoveReturn(sp, er, n) == [op |-> "Move", space |-> sp, err |-> er, stmts |-> n]

NoMoveReturn == [MoveReturn(NilSpace, NoErr, 0) EXCEPT !.op = "none"]

NoFn == [failOn |-> "never", set |-> "running"]

\* A return: the operation, the execution_id of the record the
\* call was given, the record the caller holds after the call (nil where the
\* call hands back a nil pointer), the error, and the rows the statement
\* touched. For UpdateOptLock also what happened inside the call: the Update
\* calls and re-reads made, what the last mutateFn and the last Update returned.
Return(o, i, r, er, n) ==
    [op |-> o, id |-> i, rec |-> r, err |-> er, count |-> n,
     attempts |-> 0, finds |-> 0, mutateErr |-> NoErr, updateErr |-> NoErr]

NoReturn == Return("none", 0, NilExecution, NoErr, 0)

Init ==
    /\ executions = {}
    /\ nextID = 1
    /\ pc = [p \in Procs |-> "idle"]
    /\ fn = [p \in Procs |-> NoFn]
    /\ execution = [p \in Procs |-> NilExecution]
    /\ e = [p \in Procs |-> NilExecution]
    /\ attempts = [p \in Procs |-> 0]
    /\ finds = [p \in Procs |-> 0]
    /\ lastUpdateErr = [p \in Procs |-> NoErr]
    /\ mutateErr = [p \in Procs |-> NoErr]
    /\ ret = NoReturn
    /\ created = [i \in IDs |-> 0]
    /\ commits = [i \in IDs |-> 0]
    /\ spaceUID = [s \in SpaceIDs |-> s]
    /\ segments = {PrimarySegment(s, s) : s \in SpaceIDs}
    /\ txOwner = 0
    /\ txSpaceUID = spaceUID
    /\ txSegments = segments
    /\ mpc = [p \in Procs |-> "idle"]
    /\ space = [p \in Procs |-> NilSpace]
    /\ inUID = [p \in Procs |-> NilUID]
    /\ mret = NoMoveReturn
    /\ mounted = FALSE
    /\ deps = InitialDeps
    /\ current = 0
    /\ effects = <<>>

\* ---- the statements -----------------------------------------------------

Matching(rs, pipelineID, executionNum) ==
    {r \in rs : r.PipelineID = pipelineID /\ r.Number = executionNum}

\* findQueryStmt through GetContext: the row of the identity, or no rows.
Find(rs, pipelineID, executionNum) ==
    LET m == Matching(rs, pipelineID, executionNum) IN
    IF m = {}
    THEN [rec |-> NilExecution, err |-> ErrResourceNotFound]
    ELSE [rec |-> CHOOSE r \in m : TRUE, err |-> NoErr]

\* The table's uniqueness constraint on (pipeline, number).
UniqueViolation(rs, x) == Matching(rs, x.PipelineID, x.Number) # {}

\* An insert that starts every record at the initial version.
InsertRowInitialVersion(x, id) == [x EXCEPT !.ID = id, !.Version = InitialVersion]

\* The row executionInsertStmt inserts: every column but execution_id is
\* bound from the caller's record, execution_id is handed out by the database.
InsertRow(x, id) == [x EXCEPT !.ID = id]

\* The assignment list of executionUpdateStmt, split at its commas: the
\* list opens with a comma, so its first item is empty.
executionUpdateSet ==
    <<"", "execution_status", "execution_updated", "execution_version">>

\* A statement the database can parse has no empty assignment.
WellFormed(set) == \A i \in 1..Len(set) : set[i] # ""

\* The rows executionUpdateStmt's WHERE clause selects for the bound record x.
UpdateWhere(rs, x) == {r \in rs : r.ID = x.ID /\ r.Version = x.Version - 1}

\* A statement that writes its row and then reports an error.
ExecUpdateWritesThenFails(rs, x) ==
    LET m == {r \in rs : r.ID = x.ID /\ r.Version = x.Version - 1} IN
    [rows |-> (rs \ m) \cup
              {[r EXCEPT !.Status = x.Status, !.Updated = x.Updated,
                         !.Version = x.Version] : r \in m},
     count |-> 0,
     err |-> ErrSQL]

\* An update statement that parses and selects its row by execution_id alone.
ExecUpdateNoVersionCheck(rs, x) ==
    LET m == {r \in rs : r.ID = x.ID} IN
    [rows |-> (rs \ m) \cup
              {[r EXCEPT !.Status = x.Status, !.Updated = x.Updated,
                         !.Version = x.Version] : r \in m},
     count |-> Cardinality(m),
     err |-> NoErr]

\* db.ExecContext(executionUpdateStmt) and result.RowsAffected().
ExecUpdate(rs, x) ==
    IF ~WellFormed(executionUpdateSet)
    THEN [rows |-> rs, count |-> 0, err |-> ErrSQL]
    ELSE LET m == UpdateWhere(rs, x) IN
         [rows |-> (rs \ m) \cup
                   {[r EXCEPT !.Status = x.Status, !.Updated = x.Updated,
                              !.Version = x.Version] : r \in m},
          count |-> Cardinality(m),
          err |-> NoErr]

\* What Update returns for the statement's outcome.
UpdateErr(res) ==
    IF res.err # NoErr THEN res.err
    ELSE IF res.count = 0 THEN ErrVersionConflict
    ELSE NoErr

\* A delete that reports a statement that touched no row.
DeleteChecked(rs, pipelineID, executionNum) ==
    LET m == Matching(rs, pipelineID, executionNum) IN
    [rows |-> rs \ m, count |-> Cardinality(m),
     err |-> IF m = {} THEN ErrResourceNotFound ELSE NoErr]

\* executionDeleteStmt through ExecContext: the result is discarded.
Delete(rs, pipelineID, executionNum) ==
    LET m == Matching(rs, pipelineID, executionNum) IN
    [rows |-> rs \ m, count |-> Cardinality(m), err |-> NoErr]

\* Update's local copy: execution := *e; execution.Version++;
\* execution.Updated = updatedAt.UnixMilli().
Stamp(x, now) == [x EXCEPT !.Version = @ + 1, !.Updated = now]

\* Update's last two assignments: e.Version, e.Updated = the copy's.
Mirror(x, now) == [x EXCEPT !.Version = Stamp(x, now).Version,
                            !.Updated = Stamp(x, now).Updated]

\* ---- history ------------------------------------------------------------
Committed(res, x) ==
    IF res.err = NoErr /\ res.count > 0
    THEN [commits EXCEPT ![x.ID] = @ + res.count]
    ELSE commits

Forget(h, gone) == [i \in IDs |-> IF \E r \in gone : r.ID = i THEN 0 ELSE h[i]]

\* The records a caller can pass to Update: a record read from the table,
\* with the version field as the caller likes.
Handles == {[r EXCEPT !.Version = v] : r \in executions, v \in 0..MaxVersion}

\* ---- actions ------------------------------------------------------------

\* time.Now().UnixMilli(): a reading of the wall clock, which the store does
\* not control.
Now == 0..MaxClock

CallFind(p) ==
    /\ pc[p] = "idle"
    /\ \E pid \in PipelineIDs, num \in Numbers :
         LET res == Find(executions, pid, num) IN
         ret' = Return("Find", res.rec.ID, res.rec, res.err, 0)
    /\ UNCHANGED <<executions, nextID, locals, created, commits>>
    /\ UNCHANGED notStore

CallCreate(p) ==
    /\ pc[p] = "idle"
    /\ nextID <= MaxRows
    /\ \E pid \in PipelineIDs, num \in Numbers, v \in NewVersions, u \in NewUpdateds :
         LET x == [ID |-> 0, PipelineID |-> pid, Number |-> num, Status |-> "pending",
                   Updated |-> u, Version |-> v] IN
         IF UniqueViolation(executions, x)
         THEN /\ ret' = Return("Create", 0, x, ErrDuplicate, 0)
              /\ UNCHANGED <<executions, nextID, created>>
         ELSE /\ executions' = executions \cup {InsertRow(x, nextID)}
              /\ nextID' = nextID + 1
              /\ created' = [created EXCEPT ![nextID] = InsertRow(x, nextID).Version]
              /\ ret' = Return("Create", 0, [x EXCEPT !.ID = nextID], NoErr, 1)
    /\ UNCHANGED <<locals, commits>>
    /\ UNCHANGED notStore

CallDelete(p) ==
    /\ pc[p] = "idle"
    /\ \E pid \in PipelineIDs, num \in Numbers :
         LET res == Delete(executions, pid, num) IN
         /\ executions' = res.rows
         /\ created' = Forget(created, executions \ res.rows)
         /\ commits' = Forget(commits, executions \ res.rows)
         /\ ret' = Return("Delete", 0, NilExecution, res.err, res.count)
    /\ UNCHANGED <<nextID, locals>>
    /\ UNCHANGED notStore

\* Update is called with the record e.
CallUpdate(p) ==
    /\ pc[p] = "idle"
    /\ \E x \in Handles : e' = [e EXCEPT ![p] = x]
    /\ pc' = [pc EXCEPT ![p] = "update_exec"]
    /\ ret' = NoReturn
    /\ UNCHANGED <<executions, nextID, fn, execution, attempts, finds,
                   lastUpdateErr, mutateErr, created, commits>>
    /\ UNCHANGED notStore

\* Update's body: the clock reading, the stamped copy, ExecContext,
\* RowsAffected, the mirror back.
UpdateExec(p) ==
    /\ pc[p] = "update_exec"
    /\ \E updatedAt \in Now :
         LET x == Stamp(e[p], updatedAt)
             res == ExecUpdate(executions, x)
             err == UpdateErr(res) IN
         /\ executions' = res.rows
         /\ commits' = Committed(res, x)
         /\ ret' = [Return("Update", e[p].ID,
                           IF err = NoErr THEN Mirror(e[p], updatedAt) ELSE e[p],
                           err, res.count)
                      EXCEPT !.attempts = 1, !.updateErr = err]
    /\ pc' = [pc EXCEPT ![p] = "idle"]
    /\ e' = [e EXCEPT ![p] = NilExecution]
    /\ UNCHANGED <<nextID, fn, execution, attempts, finds, lastUpdateErr,
                   mutateErr, created>>
    /\ UNCHANGED notStore

\* UpdateOptLock hands back (rec, err): the locals of the call are gone.
UOLReturn(p, i, r, er, n, a, f, me, ue) ==
    /\ ret' = [Return("UpdateOptLock", i, r, er, n) EXCEPT
                 !.attempts = a, !.finds = f, !.mutateErr = me, !.updateErr = ue]
    /\ pc' = [pc EXCEPT ![p] = "idle"]
    /\ execution' = [execution EXCEPT ![p] = NilExecution]
    /\ fn' = [fn EXCEPT ![p] = NoFn]
    /\ e' = [e EXCEPT ![p] = NilExecution]
    /\ attempts' = [attempts EXCEPT ![p] = 0]
    /\ finds' = [finds EXCEPT ![p] = 0]
    /\ lastUpdateErr' = [lastUpdateErr EXCEPT ![p] = NoErr]
    /\ mutateErr' = [mutateErr EXCEPT ![p] = NoErr]

\* A loop that hands mutateFn the caller's record itself.
SnapshotAliased(x, dup) == dup

\* dup := *execution copies the record: what mutateFn and Update do to dup
\* does not reach the record execution points at.
Snapshot(x, dup) == x

\* A loop that goes on whatever mutateFn returned.
MutateFailedIgnored(m) == FALSE

\* if err != nil, after mutateFn.
MutateFailed(m) == m.err # NoErr

\* The top of the loop for the snapshot x: dup := *execution; mutateFn(&dup);
\* then Update(&dup) is called.
UOLAttempt(p, x, f, a, fs) ==
    LET m == mutateFn(f, x) IN
    /\ UNCHANGED <<executions, commits>>
    /\ IF MutateFailed(m)
       THEN UOLReturn(p, x.ID, NilExecution, m.err, 0, a, fs, m.err, lastUpdateErr[p])
       ELSE /\ execution' = [execution EXCEPT ![p] = Snapshot(x, m.rec)]
            /\ fn' = [fn EXCEPT ![p] = f]
            /\ e' = [e EXCEPT ![p] = m.rec]
            /\ mutateErr' = [mutateErr EXCEPT ![p] = m.err]
            /\ attempts' = [attempts EXCEPT ![p] = a + 1]
            /\ finds' = [finds EXCEPT ![p] = fs]
            /\ pc' = [pc EXCEPT ![p] = "uol_exec"]
            /\ ret' = NoReturn
            /\ UNCHANGED lastUpdateErr

\* UpdateOptLock is called with a record read from the table and runs to the
\* statement of its first Update.
CallUpdateOptLock(p) ==
    /\ pc[p] = "idle"
    /\ \E x \in executions, f \in MutateFns : UOLAttempt(p, x, f, 0, 0)
    /\ UNCHANGED <<nextID, created>>
    /\ UNCHANGED notStore

\* A loop that re-reads and retries on every error of Update.
RetriesAlways(err) == TRUE

\* errors.Is(err, ErrVersionConflict): whether UpdateOptLock goes on to
\* re-read after Update returned err.
Retries(err) == err = ErrVersionConflict

\* The body of Update(&dup), and what UpdateOptLock does with its result.
UOLExec(p) ==
    \E updatedAt \in Now :
      LET x == Stamp(e[p], updatedAt)
          res == ExecUpdate(executions, x)
          err == UpdateErr(res) IN
      /\ executions' = res.rows
      /\ commits' = Committed(res, x)
      /\ IF err = NoErr
         THEN UOLReturn(p, e[p].ID, Mirror(e[p], updatedAt), NoErr, res.count,
                        attempts[p], finds[p], mutateErr[p], err)
         ELSE IF ~Retries(err)
         THEN UOLReturn(p, e[p].ID, NilExecution, err, 0,
                        attempts[p], finds[p], mutateErr[p], err)
         ELSE /\ pc' = [pc EXCEPT ![p] = "uol_find"]
              /\ lastUpdateErr' = [lastUpdateErr EXCEPT ![p] = err]
              /\ ret' = NoReturn
              /\ UNCHANGED <<e, execution, fn, attempts, finds, mutateErr>>

\* The re-read: execution, err = s.Find(ctx, execution.PipelineID, execution.Number),
\* and on success the loop's next top.
UOLFind(p) ==
    LET res == Find(executions, execution[p].PipelineID, execution[p].Number) IN
    IF res.err # NoErr
    THEN /\ UOLReturn(p, execution[p].ID, NilExecution, res.err, 0,
                      attempts[p], finds[p] + 1, mutateErr[p], lastUpdateErr[p])
         /\ UNCHANGED <<executions, commits>>
    ELSE UOLAttempt(p, res.rec, fn[p], attempts[p], finds[p] + 1)

\* One step of the UpdateOptLock call in progress, by its position. With
\* executionUpdateStmt as it is written no Update reports a conflict, and the
\* call never comes to its re-read (RereadNotReached).
UpdateOptLock(p) ==
    /\ pc[p] \in {"uol_exec", "uol_find"}
    /\ CASE pc[p] = "uol_exec" -> UOLExec(p)
         [] pc[p] = "uol_find" -> UOLFind(p)
    /\ UNCHANGED <<nextID, created>>
    /\ UNCHANGED notStore

Next ==
    \/ \E p \in Procs : CallFind(p)
    \/ \E p \in Procs : CallCreate(p)
    \/ \E p \in Procs : CallDelete(p)
    \/ \E p \in Procs : CallUpdate(p)
    \/ \E p \in Procs : UpdateExec(p)
    \/ \E p \in Procs : CallUpdateOptLock(p)
    \/ \E p \in Procs : UpdateOptLock(p)

Spec == Init /\ [][Next]_vars

\* A caller inside Update or UpdateOptLock keeps running: the statement it has
\* reached is executed and the call goes on from its result.
Fairness == \A p \in Procs : WF_vars(UpdateExec(p)) /\ WF_vars(UpdateOptLock(p))

FairSpec == Init /\ [][Next]_vars /\ Fairness

\* ---- usePRChecksDecision: the polling effect --------------------------

EffectIDs == 1..MaxEffects

\* The effects after the cleanup of the current one, if there is one.
CleanedUp == IF current = 0 THEN effects
             ELSE [effects EXCEPT ![current] = Cleanup(@)]

\* The component mounts, or renders with another path, source_sha or
\* complete: the cleanup of the last effect runs, then the effect runs anew.
Render ==
    /\ Len(effects) < MaxEffects
    /\ \E d \in Deps :
         /\ mounted => d # deps
         /\ deps' = d
         /\ effects' = Append(CleanedUp, Effect(d))
    /\ current' = Len(effects) + 1
    /\ mounted' = TRUE
    /\ UNCHANGED notPoll

\* The component unmounts: the cleanup of the current effect runs.
Unmount ==
    /\ mounted
    /\ mounted' = FALSE
    /\ effects' = CleanedUp
    /\ current' = 0
    /\ UNCHANGED deps
    /\ UNCHANGED notPoll

\* A pending timer of effect i fires: pollingFn runs, and calls refetch when
\* its condition holds.
TimerFires(i) ==
    /\ i <= Len(effects)
    /\ effects[i].timer
    /\ effects' = [effects EXCEPT ![i] = [@ EXCEPT !.timer = FALSE,
                                                   !.inflight = Polls(effects[i])]]
    /\ UNCHANGED <<mounted, deps, current>>
    /\ UNCHANGED notPoll

\* The refetch effect i started resolves: the then-callback sets the next
\* timer and puts its id in interval.
RefetchResolves(i) ==
    /\ i <= Len(effects)
    /\ effects[i].inflight
    /\ effects' = [effects EXCEPT ![i] = [@ EXCEPT !.inflight = FALSE, !.timer = TRUE]]
    /\ UNCHANGED <<mounted, deps, current>>
    /\ UNCHANGED notPoll

NextPoll ==
    \/ Render
    \/ Unmount
    \/ \E i \in EffectIDs : TimerFires(i)
    \/ \E i \in EffectIDs : RefetchResolves(i)

SpecPoll == Init /\ [][NextPoll]_vars

\* ---- Move ---------------------------------------------------------------

\* spaceStore.FindByRef: the space of the reference, or not found.
FindByRef(tbl, ref) ==
    IF ref \in SpaceIDs
    THEN [space |-> [ID |-> ref, UID |-> tbl[ref]], err |-> NoErr]
    ELSE [space |-> NilSpace, err |-> ErrResourceNotFound]

\* MoveInput.hasChanges.
hasChanges(uid, sp) == uid # NilUID /\ uid # sp.UID

\* spacePathStore.DeletePrimarySegment(ctx, space.ID).
DeletePrimarySegment(segs, spaceID) ==
    {g \in segs : ~(g.SpaceID = spaceID /\ g.IsPrimary)}

\* spacePathStore.InsertSegment(ctx, newPrimarySegment).
InsertSegment(segs, g) == segs \cup {g}

\* spaceStore.Update(ctx, space).
UpdateSpace(tbl, sp) == [tbl EXCEPT ![sp.ID] = sp.UID]

\* dbtx.New(c.db).WithTx: the table after the function returned err, db being
\* the table before the transaction and tx the table as the function left
\* it: committed when err is nil, rolled back otherwise.
WithTx(err, db, tx) == IF err = NoErr THEN tx ELSE db

\* Move returns before its transaction.
MoveReturnsEarly(p, sp, err) ==
    /\ mret' = MoveReturn(sp, err, 0)
    /\ UNCHANGED <<spaceUID, segments, txOwner, txSpaceUID, txSegments, mpc, space, inUID>>

\* The function given to WithTx returns err after n statements, having left
\* the tables as segs and tbl: the transaction ends and Move returns.
TxEnd(p, err, n, segs, tbl) ==
    /\ segments' = WithTx(err, segments, segs)
    /\ spaceUID' = WithTx(err, spaceUID, tbl)
    /\ txOwner' = 0
    /\ txSegments' = segments'
    /\ txSpaceUID' = spaceUID'
    /\ mpc' = [mpc EXCEPT ![p] = "idle"]
    /\ mret' = MoveReturn(IF err = NoErr THEN space[p] ELSE NilSpace, err, n)
    /\ space' = [space EXCEPT ![p] = NilSpace]
    /\ inUID' = [inUID EXCEPT ![p] = NilUID]

\* Move up to moveInner: FindByRef, CheckSpace, sanitizeMoveInput, hasChanges.
CallMove(p) ==
    /\ mpc[p] = "idle"
    /\ \E ref \in SpaceIDs \cup {0}, uid \in UIDs \cup {NilUID},
          authorized \in BOOLEAN, valid \in BOOLEAN :
         LET found == FindByRef(spaceUID, ref) IN
         IF found.err # NoErr THEN MoveReturnsEarly(p, NilSpace, found.err)
         ELSE IF ~authorized THEN MoveReturnsEarly(p, NilSpace, ErrNotAuthorized)
         ELSE IF uid # NilUID /\ ~valid THEN MoveReturnsEarly(p, NilSpace, ErrSanitize)
         ELSE IF ~hasChanges(uid, found.space) THEN MoveReturnsEarly(p, found.space, NoErr)
         ELSE /\ mpc' = [mpc EXCEPT ![p] = "tx_delete"]
              /\ space' = [space EXCEPT ![p] = found.space]
              /\ inUID' = [inUID EXCEPT ![p] = uid]
              /\ mret' = NoMoveReturn
              /\ UNCHANGED <<spaceUID, segments, txOwner, txSpaceUID, txSegments>>
    /\ UNCHANGED notMove

\* moveInner: the transaction opens and the old primary segment is deleted.
TxDelete(p) ==
    /\ mpc[p] = "tx_delete"
    /\ txOwner = 0
    /\ \E ok \in BOOLEAN :
         IF ok
         THEN /\ txOwner' = p
              /\ txSegments' = DeletePrimarySegment(segments, space[p].ID)
              /\ txSpaceUID' = spaceUID
              /\ mpc' = [mpc EXCEPT ![p] = "tx_insert"]
              /\ mret' = NoMoveReturn
              /\ UNCHANGED <<spaceUID, segments, space, inUID>>
         ELSE TxEnd(p, ErrStore, 0, segments, spaceUID)
    /\ UNCHANGED notMove

\* A moveInner that goes on after InsertSegment failed.
InsertFailedIgnored(err) == FALSE

\* if err != nil, after InsertSegment.
InsertFailed(err) == err # NoErr

\* moveInner: space.UID = *inUID, and the new primary segment is inserted.
TxInsert(p) ==
    /\ mpc[p] = "tx_insert"
    /\ LET sp == [space[p] EXCEPT !.UID = IF inUID[p] # NilUID THEN inUID[p] ELSE @] IN
       \E err \in {NoErr, ErrStore} :
         IF InsertFailed(err)
         THEN TxEnd(p, err, 1, txSegments, txSpaceUID)
         ELSE /\ txSegments' = IF err = NoErr
                               THEN InsertSegment(txSegments, PrimarySegment(sp.ID, sp.UID))
                               ELSE txSegments
              /\ space' = [space EXCEPT ![p] = sp]
              /\ mpc' = [mpc EXCEPT ![p] = "tx_update"]
              /\ mret' = NoMoveReturn
              /\ UNCHANGED <<spaceUID, segments, txOwner, txSpaceUID, inUID>>
    /\ UNCHANGED notMove

\* moveInner: the space itself is updated, and the transaction ends.
TxUpdate(p) ==
    /\ mpc[p] = "tx_update"
    /\ \E ok \in BOOLEAN :
         IF ok
         THEN TxEnd(p, NoErr, 3, txSegments, UpdateSpace(txSpaceUID, space[p]))
         ELSE TxEnd(p, ErrStore, 2, txSegments, txSpaceUID)
    /\ UNCHANGED notMove

NextMove ==
    \/ \E p \in Procs : CallMove(p)
    \/ \E p \in Procs : TxDelete(p)
    \/ \E p \in Procs : TxInsert(p)
    \/ \E p \in Procs : TxUpdate(p)

SpecMove == Init /\ [][NextMove]_vars

\* ---- properties ---------------------------------------------------------

Present(id) == \E r \in executions : r.ID = id
Row(id) == CHOOSE r \in executions : r.ID = id

\* The call that returned in this step was given a record of a row that exists.
OnExistingRow == Present(ret.id)

\* No Update reports a version conflict, so no UpdateOptLock call re-reads.
RereadNotReached == \A p \in Procs : pc[p] # "uol_find" /\ attempts[p] <= 1

\* p takes the step that runs Update's statement, for a row that exists.
UpdateStatementStep(p) ==
    /\ pc[p] \in {"update_exec", "uol_exec"}
    /\ pc'[p] # pc[p]
    /\ Present(e[p].ID)

\* C1: N concurrent UpdateOptLock calls on one existing record, with mutation
\* functions that never fail: every call returns successfully having committed
\* one update, and the persisted version is the version at creation plus the
\* number of commits, at least one of them this call's.
C1_EveryCallCommits ==
    (ret.op = "UpdateOptLock" /\ ret.mutateErr = NoErr /\ OnExistingRow) =>
        /\ ret.err = NoErr
        /\ ret.count = 1
        /\ commits[ret.id] >= 1
        /\ Row(ret.id).Version =
             created[ret.id] + commits[ret.id]

\* C2: Update with a record whose version differs from the persisted version
\* of that record fails with the version-conflict error and leaves the table
\* unchanged.
C2_StaleUpdateConflicts ==
    [][\A p \in Procs :
         (/\ pc[p] = "update_exec" /\ pc'[p] = "idle"
          /\ Present(e[p].ID)
          /\ Row(e[p].ID).Version # e[p].Version)
         => (ret'.err = ErrVersionConflict /\ executions' = executions)]_vars

\* C3: Update with a record whose version equals the persisted version of an
\* existing record succeeds: the persisted version becomes the old version + 1
\* and the caller's record carries the new persisted version and updatedAt.
C3_FreshUpdateCommits ==
    [][\A p \in Procs :
         (/\ pc[p] = "update_exec" /\ pc'[p] = "idle"
          /\ Present(e[p].ID)
          /\ Row(e[p].ID).Version = e[p].Version)
         => (/\ ret'.err = NoErr
             /\ \E r \in executions' :
                  /\ r.ID = e[p].ID
                  /\ r.Version = e[p].Version + 1
                  /\ ret'.rec.Version = r.Version
                  /\ ret'.rec.Updated = r.Updated)]_vars

\* C4: the persisted version of every record is its version at creation plus
\* the number of updates committed to it.
C4_VersionCountsCommits ==
    \A r \in executions : r.Version = created[r.ID] + commits[r.ID]

\* C4 witness: an Update call on an existing record, passing the persisted
\* version, has run its statement and returned, and the record is still there.
C4_Witness ==
    /\ ret.op = "Update"
    /\ ret.attempts = 1
    /\ OnExistingRow
    /\ Row(ret.id).Version = ret.rec.Version

\* Two callers are inside UpdateOptLock at their statement, with snapshots of
\* the same row at its persisted version.
Racing(p, q) ==
    /\ p # q
    /\ pc[p] = "uol_exec" /\ pc[q] = "uol_exec"
    /\ e[p].ID = e[q].ID
    /\ Present(e[p].ID)
    /\ e[p].Version = Row(e[p].ID).Version
    /\ e[q].Version = Row(e[p].ID).Version

\* C5: of two mutators that start UpdateOptLock from the same snapshot
\* (version v), the first to run its statement commits v+1 and returns; a
\* mutator whose snapshot is behind the persisted version is rejected with a
\* conflict and goes on to re-read; and a call that re-read returns
\* successfully.
C5_NoLostUpdate ==
    [][/\ \A p, q \in Procs :
            (Racing(p, q) /\ pc'[p] # pc[p]) =>
               /\ ret'.err = NoErr
               /\ \E r \in executions' :
                    r.ID = e[p].ID /\ r.Version = e[p].Version + 1 /\ r.Status = e[p].Status
       /\ \A p \in Procs :
            (/\ pc[p] = "uol_exec" /\ pc'[p] # pc[p] /\ Present(e[p].ID)
             /\ e[p].Version < Row(e[p].ID).Version)
            => (pc'[p] = "uol_find" /\ executions' = executions)
       /\ (ret'.op = "UpdateOptLock" /\ ret'.finds > 0 /\ ret'.mutateErr = NoErr
             /\ Present(ret'.id))
            => ret'.err = NoErr]_vars

\* C6 as stated: Delete for an identity that is not in the table returns the
\* not-found error.
C6_DeleteMissingNotFound ==
    (ret.op = "Delete" /\ ret.count = 0) => ret.err = ErrResourceNotFound

\* C6 as amended: Delete for an identity that is not in the table returns no
\* error and leaves the table as it was.
C6_DeleteMissingSucceeds ==
    [][(ret'.op = "Delete" /\ ret'.count = 0) =>
         (ret'.err = NoErr /\ executions' = executions)]_vars

\* C6 witness: a Delete that matched no row has returned without an error.
C6_Witness == ret.op = "Delete" /\ ret.count = 0 /\ ret.err = NoErr

\* What Find returns for the identity of the record the returning caller holds.
FoundAfter == Find(executions, ret.rec.PipelineID, ret.rec.Number)

\* C7 as stated: Find right after a successful Create returns a record with
\* the store's initial version and a set updatedAt, whatever the caller put in
\* the record.
C7_StoreAssignsVersion ==
    (ret.op = "Create" /\ ret.err = NoErr) =>
        /\ FoundAfter.err = NoErr
        /\ FoundAfter.rec.Version = InitialVersion
        /\ FoundAfter.rec.Updated # 0

\* C7 as amended: Find right after a successful Create returns the record the
\* caller passed, version and updatedAt as the caller set them, with the
\* execution_id the database handed out.
C7_CallerAssignsVersion ==
    (ret.op = "Create" /\ ret.err = NoErr) =>
        /\ FoundAfter.err = NoErr
        /\ FoundAfter.rec = ret.rec
        /\ FoundAfter.rec.ID = nextID - 1

\* C7 witness: a Create with a version other than the initial one and no
\* updatedAt has succeeded.
C7_Witness ==
    /\ ret.op = "Create" /\ ret.err = NoErr
    /\ ret.rec.Version # InitialVersion
    /\ ret.rec.Updated = 0

\* C9: when mutateFn returns an error, UpdateOptLock returns that error with a
\* nil record, having called neither Update nor Find for that attempt, and the
\* table is as it was.
C9_MutateErrorSurfaces ==
    [][(ret'.op = "UpdateOptLock" /\ ret'.mutateErr # NoErr) =>
         /\ ret'.err = ret'.mutateErr
         /\ ret'.rec = NilExecution
         /\ ret'.attempts = ret'.finds
         /\ executions' = executions
         /\ commits' = commits]_vars

\* C9 witness: an UpdateOptLock call on an existing record has returned its
\* mutation function's error.
C9_Witness ==
    /\ ret.op = "UpdateOptLock" /\ ret.err = ErrMutate /\ ret.rec = NilExecution
    /\ OnExistingRow

\* C10: UpdateOptLock goes round its loop only after a version conflict, and
\* an error it returns is never the version conflict: it is the mutation
\* function's error, else Update's non-conflict error, else the re-read's.
C10_ConflictStaysInside ==
    /\ \A p \in Procs :
         (pc[p] = "uol_find" \/ attempts[p] >= 2) => lastUpdateErr[p] = ErrVersionConflict
    /\ (ret.op = "UpdateOptLock" /\ ret.err # NoErr) =>
         /\ ret.err # ErrVersionConflict
         /\ ret.rec = NilExecution
         /\ ret.mutateErr # NoErr => ret.err = ret.mutateErr
         /\ (ret.mutateErr = NoErr /\ ret.updateErr # ErrVersionConflict) =>
               (ret.err = ret.updateErr /\ ret.attempts = ret.finds + 1)
         /\ (ret.mutateErr = NoErr /\ ret.updateErr = ErrVersionConflict) =>
               ret.err = ErrResourceNotFound

\* C10 witness: an UpdateOptLock call has returned the non-conflict error of
\* its first Update, without a retry.
C10_Witness ==
    /\ ret.op = "UpdateOptLock" /\ ret.err = ErrSQL /\ ret.updateErr = ErrSQL
    /\ ret.attempts = 1 /\ ret.finds = 0
    /\ OnExistingRow

\* p takes a step of the UpdateOptLock call it is in, or enters one.
UOLStep(p) ==
    \/ pc[p] \in {"uol_exec", "uol_find"} /\ pc'[p] # pc[p]
    \/ pc[p] = "idle" /\ pc'[p] = "uol_exec"

\* The row p's UpdateOptLock call works on is gone and its identity is free.
DeletedUnder(p) ==
    /\ ~Present(e[p].ID)
    /\ Matching(executions, e[p].PipelineID, e[p].Number) = {}

\* C11: when the record is deleted while an UpdateOptLock call on it is in
\* progress and not created again, the call's next Update matches no row and
\* counts as a version conflict, so the call goes on to its re-read without a
\* write; the re-read fails and the call returns the not-found error.
C11_DeletedSurfacesNotFound ==
    [][/\ \A p \in Procs :
            (pc[p] = "uol_exec" /\ pc'[p] # pc[p] /\ DeletedUnder(p)) =>
               (pc'[p] = "uol_find" /\ executions' = executions)
       /\ \A p \in Procs :
            (pc[p] = "uol_find" /\ pc'[p] # pc[p] /\ DeletedUnder(p)) =>
               (/\ ret'.op = "UpdateOptLock"
                /\ ret'.err = ErrResourceNotFound
                /\ executions' = executions)]_vars

\* C12: an UpdateOptLock call writes to the table at most once: a step of the
\* call that is not its successful return changes neither the table nor the
\* count of commits, a call that returns an error has written nothing in that
\* step either, and the successful return is one commit to the call's record.
C12_AtMostOneWrite ==
    [][/\ \A p \in Procs :
            (UOLStep(p) /\ ~(ret'.op = "UpdateOptLock" /\ ret'.err = NoErr)) =>
               (executions' = executions /\ commits' = commits)
       /\ (ret'.op = "UpdateOptLock" /\ ret'.err # NoErr) =>
               (executions' = executions /\ commits' = commits)
       /\ (ret'.op = "UpdateOptLock" /\ ret'.err = NoErr) =>
               (/\ commits' = [commits EXCEPT ![ret'.id] = @ + 1]
                /\ \A r \in executions : r.ID # ret'.id => r \in executions')]_vars

\* C12 witness: an UpdateOptLock call that ran its Update on an existing
\* record has returned an error, and the record is as it was created.
C12_Witness ==
    /\ ret.op = "UpdateOptLock" /\ ret.err # NoErr /\ ret.attempts = 1
    /\ OnExistingRow
    /\ commits[ret.id] = 0
    /\ Row(ret.id).Version = created[ret.id]

\* Some caller is inside UpdateOptLock, at its statement, on a row that exists.
UOLInProgress == \E p \in Procs : pc[p] = "uol_exec" /\ Present(e[p].ID)

\* C13: with an UpdateOptLock call in progress on an existing record, whose
\* mutation function did not fail, some caller eventually commits an update,
\* unless the record is deleted first.
C13_SomeCallerCommits ==
    UOLInProgress ~>
        (\/ \E i \in IDs : commits[i] > 0
         \/ \E p \in Procs : pc[p] = "uol_exec" /\ ~Present(e[p].ID))

\* C14: UpdateOptLock leaves the record it was called with as it is: when the
\* call has applied mutateFn and reached Update, the caller's record is still
\* the row as read, the mutation is on the copy alone, and the record is the
\* same through the steps that follow; a successful call returns the copy,
\* with the version its commit persisted.
C14_HandleUntouched ==
    [][/\ \A p \in Procs :
            (pc[p] = "idle" /\ pc'[p] = "uol_exec") =>
               /\ execution'[p] \in executions
               /\ e'[p] = mutateFn(fn'[p], execution'[p]).rec
       /\ \A p \in Procs :
            (pc[p] = "uol_exec" /\ pc'[p] = "uol_find") =>
               execution'[p] = execution[p]
       /\ (ret'.op = "UpdateOptLock" /\ ret'.err = NoErr) =>
               \E r \in executions' :
                  r.ID = ret'.id /\ r.Version = ret'.rec.Version]_vars

\* C14 witness: a call is at its Update with a mutated copy, and the record it
\* was called with is still the row in the table.
C14_Witness ==
    \E p \in Procs :
       /\ pc[p] = "uol_exec"
       /\ execution[p] \in executions
       /\ e[p].Status # execution[p].Status

\* The primary path segments of space s.
PrimarySegments(segs, s) == {g \in segs : g.SpaceID = s /\ g.IsPrimary}

\* Every space has one primary path segment, and it carries the space's UID.
MoveConsistent(segs, tbl) ==
    \A s \in SpaceIDs : PrimarySegments(segs, s) = {PrimarySegment(s, tbl[s])}

\* C15: when Move returns, with or without an error and whichever of its
\* three statements failed, every space has exactly one primary path segment
\* and that segment's UID is the space's persisted UID; a Move that ran no
\* statement of its transaction (its input UID absent or the current one, or
\* an error before or at the first statement) left both tables as they were;
\* and a Move that returned an error changed nothing.
C15_MoveAllOrNothing ==
    [][mret'.op = "Move" =>
         /\ MoveConsistent(segments', spaceUID')
         /\ mret'.stmts = 0 => (segments' = segments /\ spaceUID' = spaceUID)
         /\ mret'.err # NoErr => (segments' = segments /\ spaceUID' = spaceUID)
         /\ (mret'.err = NoErr /\ mret'.stmts = 3) =>
               spaceUID'[mret'.space.ID] = mret'.space.UID]_vars

\* C15 witness: a Move has failed at its last statement, after the old primary
\* segment was deleted and the new one inserted in its transaction, and the
\* tables are consistent.
C15_Witness ==
    /\ mret.op = "Move" /\ mret.err # NoErr /\ mret.stmts = 2
    /\ MoveConsistent(segments, spaceUID)

\* C17: once the cleanup of an effect has run, no timer that effect created
\* starts another refetch: an effect that is cleaned up and has no refetch in
\* flight has none in flight after any step.
C17_NoRefetchAfterCleanup ==
    [][\A i \in 1..Len(effects) :
          (effects[i].cleaned /\ ~effects[i].inflight) => ~effects'[i].inflight]_vars

====
